---- MODULE Spec2Model ----
(***************************************************************************)
(* Skill-Swap backend: the swap-request lifecycle of                       *)
(* app/routes/swap_request_routes.py and the skill workflow of             *)
(* app/routes/skill_routes.py over the tables of app/simple_app.py, with   *)
(* the ban/unban and moderation handlers of app/routes/admin_routes.py.    *)
(*                                                                         *)
(* Strings are sequences of one-character strings.  An optional column     *)
(* (NULL or a text) is a sequence of length at most one: << >> is NULL.    *)
(* A JSON value that the handlers do not convert themselves is a record    *)
(* [t, v]: t is its JSON type ("null", "int", "str"), v the number it      *)
(* denotes (for "str": the number its digits spell).                       *)
(***************************************************************************)
EXTENDS Integers, Sequences, FiniteSets, TLC

--------------------------------------------------------------------------
(* Bounds and input sets *)

\* Largest primary key the model lets swap_requests reach.
MaxRequests == 2

\* The rows of the users table; no handler of the blueprint app deletes one.
UserIds == {1, 2, 3}

\* An id that names no row of users.
MissingUserId == Cardinality(UserIds) + 1

\* The handler invocations that may overlap in time.
Procs == {"p1", "p2"}

JNull == [t |-> "null", v |-> 0]
JInt(n) == [t |-> "int", v |-> n]
JStr(n) == [t |-> "str", v |-> n]

\* Column lengths passed to sanitize_string by the swap-request handlers.
MaxSkillLen == 100
MaxMessageLen == 500

--------------------------------------------------------------------------
(* Python and SQL primitives the handlers use *)

IsSpace(c) == c = " "

RECURSIVE LStrip(_)
LStrip(s) == IF s # << >> /\ IsSpace(Head(s)) THEN LStrip(Tail(s)) ELSE s

RECURSIVE RStrip(_)
RStrip(s) ==
    IF s # << >> /\ IsSpace(s[Len(s)]) THEN RStrip(SubSeq(s, 1, Len(s) - 1)) ELSE s

\* str.strip()
Strip(s) == RStrip(LStrip(s))

\* validators.sanitize_string on a str value
sanitize_string(value, max_length) ==
    LET sanitized == Strip(value)
    IN  IF max_length # 0 /\ Len(sanitized) > max_length
        THEN SubSeq(sanitized, 1, max_length)
        ELSE sanitized

\* Python truth value of a JSON value (`not receiver_id`)
PyTruthy(j) == \/ j.t = "int" /\ j.v # 0
               \/ j.t = "str"

\* Python `user_id == receiver_id` with user_id an int: an int never equals a str
PyEqInt(n, j) == j.t = "int" /\ j.v = n

\* The value an INTEGER column compares against or stores for a bound
\* parameter: a text of digits is converted to the number it spells.
DbInt(j) == j.v

--------------------------------------------------------------------------
VARIABLES
    users,      \* users table: id -> [is_banned, ban_reason]
    requests,   \* swap_requests table: id -> row
    procs,      \* per invocation slot: the handler between its reads and its commit
    succeeded,  \* history: request id -> number of update calls that returned 200
    skills,     \* skills table: id -> row
    last        \* the most recent response, with the call that produced it

vars == <<users, requests, procs, succeeded, skills, last>>

Resp(code, msg, detail) == [code |-> code, msg |-> msg, detail |-> detail]

Idle == [op |-> "idle"]

\* Primary key given to a new row: one more than the largest in use.
NextId(reqs) ==
    IF DOMAIN reqs = {} THEN 1
    ELSE (CHOOSE m \in DOMAIN reqs : \A k \in DOMAIN reqs : k <= m) + 1

\* SwapRequest.query.get(request_id): the row, or None
RowRead(reqs, request_id) ==
    IF request_id \in DOMAIN reqs THEN <<reqs[request_id]>> ELSE << >>

\* SwapRequest.can_be_updated_by
can_be_updated_by(row, user_id) == user_id \in {row.requester_id, row.receiver_id}

\* The receiver lookup with the is_banned=False filter left out
ReceiverAvailable_AnyStatus(usrs, receiver_id) == DbInt(receiver_id) \in DOMAIN usrs

\* User.query.filter_by(id=receiver_id, is_banned=False).first() finds a row
ReceiverAvailable(usrs, receiver_id) ==
    /\ DbInt(receiver_id) \in DOMAIN usrs
    /\ ~usrs[DbInt(receiver_id)].is_banned

\* The duplicate lookup with receiver_id compared to the caller's own id
ExistingRequest_OwnId(reqs, user_id, receiver_id, skill_offered, skill_wanted) ==
    \E k \in DOMAIN reqs :
        /\ reqs[k].requester_id = user_id
        /\ reqs[k].receiver_id = user_id
        /\ reqs[k].skill_offered = skill_offered
        /\ reqs[k].skill_wanted = skill_wanted
        /\ reqs[k].status = "pending"

\* The duplicate lookup without status='pending'
ExistingRequest_AnyStatus(reqs, user_id, receiver_id, skill_offered, skill_wanted) ==
    \E k \in DOMAIN reqs :
        /\ reqs[k].requester_id = user_id
        /\ reqs[k].receiver_id = DbInt(receiver_id)
        /\ reqs[k].skill_offered = skill_offered
        /\ reqs[k].skill_wanted = skill_wanted

\* SwapRequest.query.filter_by(requester_id, receiver_id, skill_offered,
\* skill_wanted, status='pending').first() finds a row
ExistingRequest(reqs, user_id, receiver_id, skill_offered, skill_wanted) ==
    \E k \in DOMAIN reqs :
        /\ reqs[k].requester_id = user_id
        /\ reqs[k].receiver_id = DbInt(receiver_id)
        /\ reqs[k].skill_offered = skill_offered
        /\ reqs[k].skill_wanted = skill_wanted
        /\ reqs[k].status = "pending"

--------------------------------------------------------------------------
(* POST /api/swap-requests *)

\* The ladder of early returns of create_swap_request, on the rows it reads.
create_swap_request_response(reqs, usrs, user_id, data) ==
    LET receiver_id == data.receiverId
        skill_offered == Strip(data.skillOffered)
        skill_wanted == Strip(data.skillWanted)
    IN  IF ~PyTruthy(receiver_id)
        THEN Resp(400, "Receiver ID is required", << >>)
        ELSE IF skill_offered = << >> \/ skill_wanted = << >>
        THEN Resp(400, "Both offered and wanted skills are required", << >>)
        ELSE IF ~ReceiverAvailable(usrs, receiver_id)
        THEN Resp(404, "Receiver not found or unavailable", << >>)
        ELSE IF PyEqInt(user_id, receiver_id)
        THEN Resp(400, "You cannot send a swap request to yourself", << >>)
        ELSE IF ExistingRequest(reqs, user_id, receiver_id, skill_offered, skill_wanted)
        THEN Resp(400, "You already have a pending request for these skills with this user", << >>)
        ELSE Resp(201, "Swap request sent successfully", << >>)

\* The SwapRequest(...) with the skills of the body stored as they were sent
NewSwapRequest_Unsanitized(user_id, data) ==
    [requester_id       |-> user_id,
     receiver_id        |-> DbInt(data.receiverId),
     skill_offered      |-> data.skillOffered,
     skill_wanted       |-> data.skillWanted,
     message            |-> sanitize_string(Strip(data.message), MaxMessageLen),
     acceptance_message |-> << >>,
     status             |-> "pending"]

\* The SwapRequest(...) the handler builds, as the table stores it.
NewSwapRequest(user_id, data) ==
    [requester_id       |-> user_id,
     receiver_id        |-> DbInt(data.receiverId),
     skill_offered      |-> sanitize_string(Strip(data.skillOffered), MaxSkillLen),
     skill_wanted       |-> sanitize_string(Strip(data.skillWanted), MaxSkillLen),
     message            |-> sanitize_string(Strip(data.message), MaxMessageLen),
     acceptance_message |-> << >>,
     status             |-> "pending"]

\* db.session.add(swap_request); db.session.commit()
InsertRequest(reqs, user_id, data) ==
    reqs @@ (NextId(reqs) :> NewSwapRequest(user_id, data))

\* The whole handler, run without any other handler in between.
create_swap_request(user_id, data) ==
    LET r == create_swap_request_response(requests, users, user_id, data)
        id == NextId(requests)
    IN  /\ r.code = 201 => id <= MaxRequests
        /\ requests' = IF r.code = 201 THEN InsertRequest(requests, user_id, data)
                       ELSE requests
        /\ succeeded' = IF r.code = 201 THEN succeeded @@ (id :> 0) ELSE succeeded
        /\ last' = [op |-> "create", actor |-> user_id, id |-> 0, data |-> data,
                    row |-> << >>,
                    resp |-> [r EXCEPT !.detail =
                                 IF r.code = 201 THEN <<requests'[id]>> ELSE << >>]]
        /\ UNCHANGED <<users, procs, skills>>

--------------------------------------------------------------------------
(* POST /api/swap-requests of app_standalone.py, on the same tables *)

\* The early returns of the standalone create_swap_request: no receiver
\* lookup and no duplicate lookup.
standalone_create_swap_request_response(user_id, data) ==
    LET receiver_id == data.receiverId
        skill_offered == Strip(data.skillOffered)
        skill_wanted == Strip(data.skillWanted)
    IN  IF ~PyTruthy(receiver_id) \/ skill_offered = << >> \/ skill_wanted = << >>
        THEN Resp(400, "Receiver ID, offered skill and wanted skill are required", << >>)
        ELSE IF PyEqInt(user_id, receiver_id)
        THEN Resp(400, "You cannot send a swap request to yourself", << >>)
        ELSE Resp(201, "Swap request sent successfully", << >>)

\* The whole handler: the texts are stored trimmed and not cut; the table
\* does not check that receiver_id names a user.
standalone_create_swap_request(user_id, data) ==
    LET r == standalone_create_swap_request_response(user_id, data)
        id == NextId(requests)
    IN  /\ r.code = 201 => id <= MaxRequests
        /\ requests' = IF r.code = 201
                       THEN requests @@
                            (id :> [requester_id       |-> user_id,
                                    receiver_id        |-> DbInt(data.receiverId),
                                    skill_offered      |-> Strip(data.skillOffered),
                                    skill_wanted       |-> Strip(data.skillWanted),
                                    message            |-> Strip(data.message),
                                    acceptance_message |-> << >>,
                                    status             |-> "pending"])
                       ELSE requests
        /\ succeeded' = IF r.code = 201 THEN succeeded @@ (id :> 0) ELSE succeeded
        /\ last' = [op |-> "create_standalone", actor |-> user_id, id |-> 0,
                    data |-> data, row |-> << >>,
                    resp |-> [r EXCEPT !.detail =
                                 IF r.code = 201 THEN <<requests'[id]>> ELSE << >>]]
        /\ UNCHANGED <<users, procs, skills>>

--------------------------------------------------------------------------
(* PUT /api/swap-requests/<id> *)

\* The list of statuses with 'pending' let in
valid_statuses_WithPending == {"pending", "accepted", "rejected", "cancelled"}

\* valid_statuses = ['accepted', 'rejected', 'cancelled']
valid_statuses == {"accepted", "rejected", "cancelled"}

\* `new_status in ['accepted', 'rejected'] and user_id != swap_request.receiver_id`,
\* with the receiver check made against the requester
NotReceiverDeciding_AgainstRequester(swap_request, user_id, new_status) ==
    /\ new_status \in {"accepted", "rejected"}
    /\ user_id # swap_request.requester_id

\* `new_status in ['accepted', 'rejected'] and user_id != swap_request.receiver_id`
NotReceiverDeciding(swap_request, user_id, new_status) ==
    /\ new_status \in {"accepted", "rejected"}
    /\ user_id # swap_request.receiver_id

\* `new_status == 'cancelled' and user_id != swap_request.requester_id`,
\* with the requester check made against the receiver
NotRequesterCancelling_AgainstReceiver(swap_request, user_id, new_status) ==
    /\ new_status = "cancelled"
    /\ user_id # swap_request.receiver_id

\* `new_status == 'cancelled' and user_id != swap_request.requester_id`
NotRequesterCancelling(swap_request, user_id, new_status) ==
    /\ new_status = "cancelled"
    /\ user_id # swap_request.requester_id

\* `swap_request.status != 'pending'`, with the check left out
NoLongerPending_Unchecked(swap_request) == FALSE

\* `swap_request.status != 'pending'`
NoLongerPending(swap_request) == swap_request.status # "pending"

\* The 400 answer of the pending check, naming the status asked for
CannotUpdate_NamingTarget(swap_request, new_status) ==
    Resp(400, "Cannot update request with status", <<new_status>>)

\* The 400 answer of the pending check, worded as the answer of the status list
CannotUpdate_AsInvalidStatus(swap_request, new_status) ==
    Resp(400, "Invalid status", << >>)

\* The 400 answer of the pending check: it names the status of the row
CannotUpdate(swap_request, new_status) ==
    Resp(400, "Cannot update request with status", <<swap_request.status>>)

\* The ladder of early returns of update_swap_request, on the row it reads.
update_swap_request_response(reqs, user_id, request_id, data) ==
    IF request_id \notin DOMAIN reqs
    THEN Resp(404, "Swap request not found", << >>)
    ELSE LET swap_request == reqs[request_id]
             new_status == data.status
         IN  IF ~can_be_updated_by(swap_request, user_id)
             THEN Resp(403, "You are not authorized to update this request", << >>)
             ELSE IF new_status \notin valid_statuses
             THEN Resp(400, "Invalid status", << >>)
             ELSE IF NotReceiverDeciding(swap_request, user_id, new_status)
             THEN Resp(403, "Only the receiver can accept or reject requests", << >>)
             ELSE IF NotRequesterCancelling(swap_request, user_id, new_status)
             THEN Resp(403, "Only the requester can cancel requests", << >>)
             ELSE IF NoLongerPending(swap_request)
             THEN CannotUpdate(swap_request, new_status)
             ELSE Resp(200, "Request updated successfully", << >>)

\* The assignments with the acceptance message stored trimmed but not cut
UpdatedRequest_Uncut(row, data) ==
    LET acceptance_message == Strip(data.acceptanceMessage)
    IN  [row EXCEPT
            !.status = data.status,
            !.acceptance_message =
                IF data.status \in {"accepted", "rejected"} /\ acceptance_message # << >>
                THEN <<acceptance_message>>
                ELSE @]

\* The assignments of update_swap_request with the message attached whatever
\* the target status
UpdatedRequest_AnyTarget(row, data) ==
    LET acceptance_message == Strip(data.acceptanceMessage)
    IN  [row EXCEPT
            !.status = data.status,
            !.acceptance_message =
                IF acceptance_message # << >>
                THEN <<sanitize_string(acceptance_message, MaxMessageLen)>>
                ELSE @]

\* The attributes the handler assigns before db.session.commit()
UpdatedRequest(row, data) ==
    LET acceptance_message == Strip(data.acceptanceMessage)
    IN  [row EXCEPT
            !.status = data.status,
            !.acceptance_message =
                IF data.status \in {"accepted", "rejected"} /\ acceptance_message # << >>
                THEN <<sanitize_string(acceptance_message, MaxMessageLen)>>
                ELSE @]

\* The UPDATE of the commit without its WHERE id = request_id
WriteRequest_EveryRow(reqs, request_id, data) ==
    [k \in DOMAIN reqs |-> UpdatedRequest(reqs[k], data)]

\* The UPDATE ... WHERE id = request_id that the commit flushes.
WriteRequest(reqs, request_id, data) ==
    [reqs EXCEPT ![request_id] = UpdatedRequest(@, data)]

update_swap_request(user_id, request_id, data) ==
    LET r == update_swap_request_response(requests, user_id, request_id, data)
    IN  /\ requests' = IF r.code = 200 THEN WriteRequest(requests, request_id, data)
                       ELSE requests
        /\ succeeded' = IF r.code = 200
                        THEN [succeeded EXCEPT ![request_id] = @ + 1]
                        ELSE succeeded
        /\ last' = [op |-> "update", actor |-> user_id, id |-> request_id, data |-> data,
                    row |-> RowRead(requests, request_id),
                    resp |-> IF r.code = 200
                             THEN [r EXCEPT !.detail = <<requests'[request_id]>>]
                             ELSE r]
        /\ UNCHANGED <<users, procs, skills>>

--------------------------------------------------------------------------
(* GET /api/swap-requests/<id> *)

\* `user_id not in [requester_id, receiver_id]`, with the receiver left out
NotInvolved_RequesterOnly(swap_request, user_id) == user_id # swap_request.requester_id

\* `user_id not in [swap_request.requester_id, swap_request.receiver_id]`
NotInvolved(swap_request, user_id) ==
    user_id \notin {swap_request.requester_id, swap_request.receiver_id}

get_swap_request_response(reqs, user_id, request_id) ==
    IF request_id \notin DOMAIN reqs
    THEN Resp(404, "Swap request not found", << >>)
    ELSE IF NotInvolved(reqs[request_id], user_id)
    THEN Resp(403, "You are not authorized to view this request", << >>)
    ELSE Resp(200, "", <<reqs[request_id]>>)

\* The handler reads one row and commits nothing.
get_swap_request(user_id, request_id) ==
    /\ last' = [op |-> "view", actor |-> user_id, id |-> request_id, data |-> << >>,
                row |-> RowRead(requests, request_id),
                resp |-> get_swap_request_response(requests, user_id, request_id)]
    /\ UNCHANGED <<users, requests, procs, succeeded, skills>>

--------------------------------------------------------------------------
(* DELETE /api/swap-requests/<id> *)

\* `user_id != swap_request.requester_id`, with the receiver let through too
NotRequester_NorReceiver(swap_request, user_id) ==
    user_id \notin {swap_request.requester_id, swap_request.receiver_id}

\* `user_id != swap_request.requester_id`
NotRequester(swap_request, user_id) == user_id # swap_request.requester_id

delete_swap_request_response(reqs, user_id, request_id) ==
    IF request_id \notin DOMAIN reqs
    THEN Resp(404, "Swap request not found", << >>)
    ELSE IF NotRequester(reqs[request_id], user_id)
    THEN Resp(403, "Only the requester can delete the request", << >>)
    ELSE Resp(200, "Swap request deleted successfully", << >>)

\* db.session.delete(swap_request); db.session.commit()
RemoveRequest(f, request_id) == [k \in DOMAIN f \ {request_id} |-> f[k]]

delete_swap_request(user_id, request_id) ==
    LET r == delete_swap_request_response(requests, user_id, request_id)
    IN  /\ requests' = IF r.code = 200 THEN RemoveRequest(requests, request_id)
                       ELSE requests
        /\ succeeded' = IF r.code = 200 THEN RemoveRequest(succeeded, request_id)
                        ELSE succeeded
        /\ last' = [op |-> "delete", actor |-> user_id, id |-> request_id,
                    data |-> << >>, row |-> RowRead(requests, request_id), resp |-> r]
        /\ UNCHANGED <<users, procs, skills>>

--------------------------------------------------------------------------
(* POST /api/admin/users/<id>/ban and /unban: open to every authenticated caller *)

ban_user(user_id, data) ==
    LET reason == Strip(data.reason)
        r == IF reason = << >> THEN Resp(400, "Ban reason is required", << >>)
             ELSE IF user_id \notin DOMAIN users THEN Resp(404, "User not found", << >>)
             ELSE Resp(200, "User banned successfully", << >>)
    IN  /\ users' = IF r.code = 200
                    THEN [users EXCEPT ![user_id] =
                            [is_banned |-> TRUE,
                             ban_reason |-> <<sanitize_string(reason, MaxMessageLen)>>]]
                    ELSE users
        /\ last' = [op |-> "ban", actor |-> 0, id |-> user_id, data |-> data,
                    row |-> << >>, resp |-> r]
        /\ UNCHANGED <<requests, procs, succeeded, skills>>

unban_user(user_id) ==
    LET r == IF user_id \notin DOMAIN users THEN Resp(404, "User not found", << >>)
             ELSE Resp(200, "User unbanned successfully", << >>)
    IN  /\ users' = IF r.code = 200
                    THEN [users EXCEPT ![user_id] =
                            [is_banned |-> FALSE, ban_reason |-> << >>]]
                    ELSE users
        /\ last' = [op |-> "unban", actor |-> 0, id |-> user_id, data |-> << >>,
                    row |-> << >>, resp |-> r]
        /\ UNCHANGED <<requests, procs, succeeded, skills>>

--------------------------------------------------------------------------
(* Skills: app/routes/skill_routes.py and the moderation handlers of          *)
(* app/routes/admin_routes.py.  These handlers take get_jwt_identity() as it  *)
(* is, so the caller is a JSON value: the text of the user id in a token of   *)
(* auth_routes.login, the number in a token of app_standalone.login (both     *)
(* apps sign with the same key over the same database).                       *)

\* Largest primary key the model lets skills reach.
MaxSkills == 2

\* Column lengths passed to sanitize_string by the skill handlers.
MaxNameLen == 100
MaxDescriptionLen == 500
MaxCategoryLen == 50

\* Skill.query.get(skill_id): the row, or None
SkillRead(skls, skill_id) ==
    IF skill_id \in DOMAIN skls THEN <<skls[skill_id]>> ELSE << >>

\* The name lookup and the UNIQUE index, both finding nothing
NameTaken_Never(skls, skill_id, name) == FALSE

\* Some row other than skill_id holds the name: the lookup of create_skill
\* (skill_id = 0) and the UNIQUE index on skills.name.
NameTaken(skls, skill_id, name) ==
    \E k \in DOMAIN skls \ {skill_id} : skls[k].name = name

\* `skill.created_by != user_id`, with the check left out
NotCreator_Unchecked(skill, user_id) == FALSE

\* `skill.created_by != user_id`: the column is read back as an int, the
\* identity is compared as the token carries it
NotCreator(skill, user_id) == ~PyEqInt(skill.created_by, user_id)

\* The Skill(...) that create_skill builds, as the table stores it.
NewSkill(user_id, data) ==
    [name             |-> sanitize_string(Strip(data.name), MaxNameLen),
     description      |-> sanitize_string(Strip(data.description), MaxDescriptionLen),
     category         |-> sanitize_string(Strip(data.category), MaxCategoryLen),
     status           |-> "pending",
     rejection_reason |-> << >>,
     created_by       |-> DbInt(user_id)]

\* POST /api/skills: the early returns, and the INSERT the UNIQUE index refuses
create_skill_response(skls, user_id, data) ==
    LET name == Strip(data.name)
    IN  IF name = << >>
        THEN Resp(400, "Skill name is required", << >>)
        ELSE IF NameTaken(skls, 0, name)
        THEN Resp(400, "Skill already exists", << >>)
        ELSE IF NameTaken(skls, 0, NewSkill(user_id, data).name)
        THEN Resp(500, "Failed to create skill", << >>)
        ELSE Resp(201, "Skill created successfully and is pending approval", << >>)

\* db.session.add(skill); db.session.commit() with no index on the name
InsertSkill_Unconstrained(skls, user_id, data) ==
    skls @@ (NextId(skls) :> NewSkill(user_id, data))

\* db.session.add(skill); db.session.commit(): the INSERT, which the UNIQUE
\* index on the name refuses; the except clause then rolls the session back
InsertSkill(skls, user_id, data) ==
    IF NameTaken(skls, 0, NewSkill(user_id, data).name)
    THEN skls
    ELSE skls @@ (NextId(skls) :> NewSkill(user_id, data))

create_skill(user_id, data) ==
    LET r == create_skill_response(skills, user_id, data)
        id == NextId(skills)
    IN  /\ r.code = 201 => id <= MaxSkills
        /\ skills' = IF r.code \in {201, 500} THEN InsertSkill(skills, user_id, data)
                     ELSE skills
        /\ last' = [op |-> "propose", actor |-> user_id, id |-> 0, data |-> data,
                    row |-> << >>,
                    resp |-> [r EXCEPT !.detail =
                                 IF r.code = 201 THEN <<skills'[id]>> ELSE << >>]]
        /\ UNCHANGED <<users, requests, procs, succeeded>>

\* The assignments of update_skill with the reset of status and
\* rejection_reason left out
UpdatedSkill_NoReset(skill, data) ==
    [skill EXCEPT
        !.name = IF data.name # << >> /\ Strip(data.name[1]) # << >>
                 THEN sanitize_string(data.name[1], MaxNameLen) ELSE @,
        !.description = IF data.description # << >>
                        THEN sanitize_string(data.description[1], MaxDescriptionLen)
                        ELSE @,
        !.category = IF data.category # << >>
                     THEN sanitize_string(data.category[1], MaxCategoryLen) ELSE @]

\* The attributes update_skill assigns before db.session.commit(); a key of
\* the body is << >> when absent and <<text>> when present.
UpdatedSkill(skill, data) ==
    [skill EXCEPT
        !.name = IF data.name # << >> /\ Strip(data.name[1]) # << >>
                 THEN sanitize_string(data.name[1], MaxNameLen) ELSE @,
        !.description = IF data.description # << >>
                        THEN sanitize_string(data.description[1], MaxDescriptionLen)
                        ELSE @,
        !.category = IF data.category # << >>
                     THEN sanitize_string(data.category[1], MaxCategoryLen) ELSE @,
        !.status = "pending",
        !.rejection_reason = << >>]

\* PUT /api/skills/<id>: the early returns, and the UPDATE the UNIQUE index
\* refuses
update_skill_response(skls, user_id, skill_id, data) ==
    IF skill_id \notin DOMAIN skls
    THEN Resp(404, "Skill not found", << >>)
    ELSE IF NotCreator(skls[skill_id], user_id)
    THEN Resp(403, "You can only update skills you created", << >>)
    ELSE IF NameTaken(skls, skill_id, UpdatedSkill(skls[skill_id], data).name)
    THEN Resp(500, "Failed to update skill", << >>)
    ELSE Resp(200, "Skill updated successfully and is pending approval", << >>)

\* The commit of update_skill when the refused UPDATE still wrote the columns
\* other than the name
FlushSkill_Partial(skls, skill_id, data) ==
    IF NameTaken(skls, skill_id, UpdatedSkill(skls[skill_id], data).name)
    THEN [skls EXCEPT ![skill_id] =
             [UpdatedSkill(@, data) EXCEPT !.name = skls[skill_id].name]]
    ELSE [skls EXCEPT ![skill_id] = UpdatedSkill(@, data)]

\* db.session.commit() of update_skill: one UPDATE of the row, which the
\* UNIQUE index on the name refuses as a whole; the except clause then rolls
\* the session back
FlushSkill(skls, skill_id, data) ==
    IF NameTaken(skls, skill_id, UpdatedSkill(skls[skill_id], data).name)
    THEN skls
    ELSE [skls EXCEPT ![skill_id] = UpdatedSkill(@, data)]

update_skill(user_id, skill_id, data) ==
    LET r == update_skill_response(skills, user_id, skill_id, data)
    IN  /\ skills' = IF r.code \in {200, 500}
                     THEN FlushSkill(skills, skill_id, data)
                     ELSE skills
        /\ last' = [op |-> "edit", actor |-> user_id, id |-> skill_id, data |-> data,
                    row |-> SkillRead(skills, skill_id),
                    resp |-> IF r.code = 200
                             THEN [r EXCEPT !.detail = <<skills'[skill_id]>>]
                             ELSE r]
        /\ UNCHANGED <<users, requests, procs, succeeded>>

\* DELETE /api/skills/<id>
delete_skill_response(skls, user_id, skill_id) ==
    IF skill_id \notin DOMAIN skls
    THEN Resp(404, "Skill not found", << >>)
    ELSE IF NotCreator(skls[skill_id], user_id)
    THEN Resp(403, "You can only delete skills you created", << >>)
    ELSE Resp(200, "Skill deleted successfully", << >>)

delete_skill(user_id, skill_id) ==
    LET r == delete_skill_response(skills, user_id, skill_id)
    IN  /\ skills' = IF r.code = 200 THEN RemoveRequest(skills, skill_id) ELSE skills
        /\ last' = [op |-> "delete_skill", actor |-> user_id, id |-> skill_id,
                    data |-> << >>, row |-> SkillRead(skills, skill_id), resp |-> r]
        /\ UNCHANGED <<users, requests, procs, succeeded>>

\* The assignments of approve_skill with the reason left as it is
ApprovedSkill_KeepReason(skill) == [skill EXCEPT !.status = "approved"]

\* approve_skill: the assignments of lines 218-219
ApprovedSkill(skill) ==
    [skill EXCEPT !.status = "approved", !.rejection_reason = << >>]

\* POST /api/admin/skills/<id>/approve: open to every authenticated caller
approve_skill(user_id, skill_id) ==
    LET r == IF skill_id \notin DOMAIN skills
             THEN Resp(404, "Skill not found", << >>)
             ELSE Resp(200, "Skill approved successfully", << >>)
    IN  /\ skills' = IF r.code = 200
                     THEN [skills EXCEPT ![skill_id] = ApprovedSkill(@)]
                     ELSE skills
        /\ last' = [op |-> "approve", actor |-> user_id, id |-> skill_id,
                    data |-> << >>, row |-> SkillRead(skills, skill_id), resp |-> r]
        /\ UNCHANGED <<users, requests, procs, succeeded>>

\* `data.get('reason', '')` taken without .strip()
RejectReason_Unstripped(data) == data.reason

\* `data.get('reason', '').strip()`; a body without the key holds << >>
RejectReason(data) == Strip(data.reason)

\* reject_skill: the assignments of lines 259-260
RejectedSkill(skill, data) ==
    [skill EXCEPT !.status = "rejected",
                  !.rejection_reason =
                      <<sanitize_string(RejectReason(data), MaxMessageLen)>>]

\* POST /api/admin/skills/<id>/reject: open to every authenticated caller
reject_skill(user_id, skill_id, data) ==
    LET reason == RejectReason(data)
        r == IF reason = << >>
             THEN Resp(400, "Rejection reason is required", << >>)
             ELSE IF skill_id \notin DOMAIN skills
             THEN Resp(404, "Skill not found", << >>)
             ELSE Resp(200, "Skill rejected successfully", << >>)
    IN  /\ skills' = IF r.code = 200
                     THEN [skills EXCEPT ![skill_id] = RejectedSkill(@, data)]
                     ELSE skills
        /\ last' = [op |-> "reject", actor |-> user_id, id |-> skill_id,
                    data |-> data, row |-> SkillRead(skills, skill_id), resp |-> r]
        /\ UNCHANGED <<users, requests, procs, succeeded>>

--------------------------------------------------------------------------
(* GET /api/skills and GET /api/skills/<id>: open to every caller.  A query  *)
(* parameter is << >> when absent and <<text>> when present.                 *)

\* Code point of a character, for the characters the inputs use
CodePoint(c) ==
    CASE c = " " -> 32
      [] c = "B" -> 66
      [] c = "a" -> 97
      [] c = "b" -> 98
      [] c = "c" -> 99
      [] c = "d" -> 100
      [] OTHER -> 120

\* ORDER BY name under the BINARY collation: s sorts no later than t
RECURSIVE NameLeq(_, _)
NameLeq(s, t) ==
    IF s = << >> THEN TRUE
    ELSE IF t = << >> THEN FALSE
    ELSE IF Head(s) # Head(t) THEN CodePoint(Head(s)) < CodePoint(Head(t))
    ELSE NameLeq(Tail(s), Tail(t))

\* ILIKE folds the case of ASCII letters
LowerChar(c) == IF c = "B" THEN "b" ELSE c

Lower(s) == [i \in 1 .. Len(s) |-> LowerChar(s[i])]

\* name ILIKE '%search%'
Contains(name, search) ==
    \E i \in 0 .. Len(name) - Len(search) :
        Lower(SubSeq(name, i + 1, i + Len(search))) = Lower(search)

\* filter_by(status='approved'), with pending skills let through
Listable_NotRejected(skill) == skill.status # "rejected"

\* filter_by(status='approved')
Listable(skill) == skill.status = "approved"

\* The ids the query of get_skills selects
Selected(skls, args) ==
    LET search == IF args.search = << >> THEN << >> ELSE Strip(args.search[1])
    IN  {k \in DOMAIN skls :
            /\ Listable(skls[k])
            /\ (args.category # << >> /\ args.category[1] # << >>)
                    => skls[k].category = args.category[1]
            /\ search # << >> => Contains(skls[k].name, search)}

\* order_by(Skill.name).all()
RECURSIVE OrderByName(_, _)
OrderByName(skls, ids) ==
    IF ids = {} THEN << >>
    ELSE LET first == CHOOSE k \in ids :
                        \A j \in ids : NameLeq(skls[k].name, skls[j].name)
         IN  <<skls[first]>> \o OrderByName(skls, ids \ {first})

get_skills(args) ==
    /\ last' = [op |-> "list", actor |-> 0, id |-> 0, data |-> args, row |-> << >>,
                resp |-> Resp(200, "", OrderByName(skills, Selected(skills, args)))]
    /\ UNCHANGED <<users, requests, procs, succeeded, skills>>

get_skill_by_id(skill_id) ==
    /\ last' = [op |-> "show", actor |-> 0, id |-> skill_id, data |-> << >>,
                row |-> SkillRead(skills, skill_id),
                resp |-> IF skill_id \in DOMAIN skills /\ Listable(skills[skill_id])
                         THEN Resp(200, "", <<skills[skill_id]>>)
                         ELSE Resp(404, "Skill not found", << >>)]
    /\ UNCHANGED <<users, requests, procs, succeeded, skills>>

--------------------------------------------------------------------------
(* Inputs *)

\* The users that send requests; the third user only acts on requests of others.
Requesters == {1, 2}

\* receiverId of the JSON body: missing, a number, or a text of digits
ReceiverInputs ==
    {JNull, JInt(MissingUserId), JStr(1)} \cup {JInt(u) : u \in Requesters}

SkillOfferedInputs == {<<" ">>, <<" ", "p", "y", " ">>}
SkillWantedInputs == {<<"g", "o">>}
MessageInputs == {<<" ", "h", "i">>}

CreateInputs ==
    [receiverId : ReceiverInputs, skillOffered : SkillOfferedInputs,
     skillWanted : SkillWantedInputs, message : MessageInputs]

\* status of the JSON body: the three targets, and a value outside them
StatusInputs == valid_statuses \cup {"pending"}

AcceptanceMessageInputs == {<<" ", "o", "k", " ">>}

UpdateInputs == [status : StatusInputs, acceptanceMessage : AcceptanceMessageInputs]

\* The user the ban and unban calls name.
BanTargets == {1}

BanInputs == [reason : {<<" ">>, <<"s", "p", "a", "m", " ">>}]

RequestIds == 1 .. MaxRequests

--------------------------------------------------------------------------
(* Handlers run one at a time *)

Init ==
    /\ users = [u \in UserIds |-> [is_banned |-> FALSE, ban_reason |-> << >>]]
    /\ requests = << >>
    /\ procs = [p \in Procs |-> Idle]
    /\ succeeded = << >>
    /\ skills = << >>
    /\ last = [op |-> "none", actor |-> 0, id |-> 0, data |-> << >>, row |-> << >>,
               resp |-> Resp(0, "", << >>)]

Create == \E u \in Requesters, d \in CreateInputs : create_swap_request(u, d)

Transition ==
    \E u \in UserIds, id \in RequestIds, d \in UpdateInputs : update_swap_request(u, id, d)

Delete == \E u \in UserIds, id \in RequestIds : delete_swap_request(u, id)

View == \E u \in UserIds, id \in RequestIds : get_swap_request(u, id)

Ban == \E u \in BanTargets, d \in BanInputs : ban_user(u, d)

Unban == \E u \in BanTargets : unban_user(u)

Next == Create \/ Transition \/ Delete \/ View \/ Ban \/ Unban

Spec == Init /\ [][Next]_vars

--------------------------------------------------------------------------
(* Handlers that overlap in time.  Each invocation has its own session: it  *)
(* runs its SELECTs and its checks in one step, and its commit in a later   *)
(* step; a handler that returns early has no second step.                   *)

Pending(op, user_id, request_id, data) ==
    [op |-> op, actor |-> user_id, id |-> request_id, data |-> data]

BeginCreate(p, user_id, data) ==
    LET r == create_swap_request_response(requests, users, user_id, data)
    IN  /\ procs[p] = Idle
        /\ IF r.code = 201
           THEN /\ procs' = [procs EXCEPT ![p] = Pending("create", user_id, 0, data)]
                /\ UNCHANGED last
           ELSE /\ last' = [op |-> "create", actor |-> user_id, id |-> 0, data |-> data,
                            row |-> << >>, resp |-> r]
                /\ UNCHANGED procs
        /\ UNCHANGED <<users, requests, succeeded, skills>>

\* The INSERT of the commit: no constraint of the table can refuse it.
CommitCreate(p) ==
    LET c == procs[p]
        id == NextId(requests)
    IN  /\ c.op = "create"
        /\ id <= MaxRequests
        /\ requests' = InsertRequest(requests, c.actor, c.data)
        /\ succeeded' = succeeded @@ (id :> 0)
        /\ last' = [op |-> "create", actor |-> c.actor, id |-> 0, data |-> c.data,
                    row |-> << >>,
                    resp |-> Resp(201, "Swap request sent successfully", <<requests'[id]>>)]
        /\ procs' = [procs EXCEPT ![p] = Idle]
        /\ UNCHANGED <<users, skills>>

BeginUpdate(p, user_id, request_id, data) ==
    LET r == update_swap_request_response(requests, user_id, request_id, data)
    IN  /\ procs[p] = Idle
        /\ IF r.code = 200
           THEN /\ procs' = [procs EXCEPT ![p] = Pending("update", user_id, request_id, data)]
                /\ UNCHANGED last
           ELSE /\ last' = [op |-> "update", actor |-> user_id, id |-> request_id,
                            data |-> data, row |-> RowRead(requests, request_id),
                            resp |-> r]
                /\ UNCHANGED procs
        /\ UNCHANGED <<users, requests, succeeded, skills>>

\* The UPDATE of the commit names the row by its id alone; when no row has
\* that id any more the flush raises and the handler answers 500.
CommitUpdate(p) ==
    LET c == procs[p]
    IN  /\ c.op = "update"
        /\ IF c.id \in DOMAIN requests
           THEN /\ requests' = WriteRequest(requests, c.id, c.data)
                /\ succeeded' = [succeeded EXCEPT ![c.id] = @ + 1]
                /\ last' = [op |-> "update", actor |-> c.actor, id |-> c.id,
                            data |-> c.data, row |-> << >>,
                            resp |-> Resp(200, "Request updated successfully",
                                          <<requests'[c.id]>>)]
           ELSE /\ last' = [op |-> "update", actor |-> c.actor, id |-> c.id,
                            data |-> c.data, row |-> << >>,
                            resp |-> Resp(500, "Failed to update swap request", << >>)]
                /\ UNCHANGED <<requests, succeeded>>
        /\ procs' = [procs EXCEPT ![p] = Idle]
        /\ UNCHANGED <<users, skills>>

BeginDelete(p, user_id, request_id) ==
    LET r == delete_swap_request_response(requests, user_id, request_id)
    IN  /\ procs[p] = Idle
        /\ IF r.code = 200
           THEN /\ procs' = [procs EXCEPT ![p] = Pending("delete", user_id, request_id, << >>)]
                /\ UNCHANGED last
           ELSE /\ last' = [op |-> "delete", actor |-> user_id, id |-> request_id,
                            data |-> << >>, row |-> RowRead(requests, request_id),
                            resp |-> r]
                /\ UNCHANGED procs
        /\ UNCHANGED <<users, requests, succeeded, skills>>

\* The DELETE of the commit; a row already gone only draws a warning.
CommitDelete(p) ==
    LET c == procs[p]
    IN  /\ c.op = "delete"
        /\ requests' = RemoveRequest(requests, c.id)
        /\ succeeded' = RemoveRequest(succeeded, c.id)
        /\ last' = [op |-> "delete", actor |-> c.actor, id |-> c.id, data |-> << >>,
                    row |-> << >>,
                    resp |-> Resp(200, "Swap request deleted successfully", << >>)]
        /\ procs' = [procs EXCEPT ![p] = Idle]
        /\ UNCHANGED <<users, skills>>

\* Inputs of the overlapping runs: user 1 asks user 2, either may act on the request.
ConcCreateInputs ==
    [receiverId : {JInt(2)}, skillOffered : {<<" ", "p", "y", " ">>},
     skillWanted : SkillWantedInputs, message : MessageInputs]

ConcUpdateInputs == [status : valid_statuses, acceptanceMessage : AcceptanceMessageInputs]

ConcCreate == \E p \in Procs, d \in ConcCreateInputs : BeginCreate(p, 1, d)

ConcCreateCommit == \E p \in Procs : CommitCreate(p)

ConcTransition ==
    \E p \in Procs, u \in Requesters, id \in RequestIds, d \in ConcUpdateInputs :
        BeginUpdate(p, u, id, d)

ConcTransitionCommit == \E p \in Procs : CommitUpdate(p)

ConcDelete == \E p \in Procs, id \in RequestIds : BeginDelete(p, 1, id)

ConcDeleteCommit == \E p \in Procs : CommitDelete(p)

ConcNext ==
    \/ ConcCreate \/ ConcCreateCommit
    \/ ConcTransition \/ ConcTransitionCommit
    \/ ConcDelete \/ ConcDeleteCommit

ConcSpec == Init /\ [][ConcNext]_vars

--------------------------------------------------------------------------
(* Update calls over the bodies a client can send: user 1 asks user 2, and   *)
(* either of them updates with any status and any acceptance message.        *)

\* data.get('status') of a body without the key
PyNone == "None"

BodyStatusInputs == valid_statuses \cup {"pending", PyNone}

\* More than MaxMessageLen characters once trimmed, with a blank at the cut
LongMessage ==
    [i \in 1 .. MaxMessageLen + 2 |->
        IF i \in {1, MaxMessageLen + 1} THEN " " ELSE "x"]

\* acceptanceMessage: the key missing or "", blanks only, a short text, a long one
BodyMessageInputs == {<< >>, <<" ">>, <<" ", "o", "k", " ">>, LongMessage}

BodyInputs == [status : BodyStatusInputs, acceptanceMessage : BodyMessageInputs]

BodyCreate == \E d \in ConcCreateInputs : create_swap_request(1, d)

BodyTransition ==
    \E u \in Requesters, id \in RequestIds, d \in BodyInputs :
        update_swap_request(u, id, d)

BodyNext == BodyCreate \/ BodyTransition

BodySpec == Init /\ [][BodyNext]_vars

--------------------------------------------------------------------------
(* The skill handlers run one at a time: user 1 proposes, once with a token  *)
(* of either login; users 1 and 2 edit and delete; user 3 moderates.         *)

\* get_jwt_identity() of user u: str(user.id) from auth_routes.login,
\* user.id from app_standalone.login
LoginIdentity(u) == JStr(u)
StandaloneIdentity(u) == JInt(u)

Proposers == {LoginIdentity(1), StandaloneIdentity(1)}

Editors == Proposers \cup {LoginIdentity(2), StandaloneIdentity(2)}

Moderator == LoginIdentity(3)

SkillIds == 1 .. MaxSkills

\* Bodies of POST /api/skills
ProposeInputs ==
    [name : {<<"a">>, <<" ", "b", " ">>, <<" ">>}, description : {<<"x", " ">>},
     category : {<< >>}]

NoKeys == [name |-> << >>, description |-> << >>, category |-> << >>]

\* Bodies of PUT /api/skills/<id>: a name, a description, a category, a blank
\* name, no key at all
EditInputs ==
    {[NoKeys EXCEPT !.name = << <<"b">> >>],
     [NoKeys EXCEPT !.description = << <<" ", "d">> >>],
     [NoKeys EXCEPT !.category = << <<"c">> >>],
     [NoKeys EXCEPT !.name = << <<" ">> >>],
     NoKeys}

RejectInputs == [reason : {<< >>, <<" ">>, <<" ", "n", "o">>}]

Propose == \E u \in Proposers, d \in ProposeInputs : create_skill(u, d)

Edit == \E u \in Editors, id \in SkillIds, d \in EditInputs : update_skill(u, id, d)

DeleteSkill == \E u \in Editors, id \in SkillIds : delete_skill(u, id)

Approve == \E id \in SkillIds : approve_skill(Moderator, id)

Reject == \E id \in SkillIds, d \in RejectInputs : reject_skill(Moderator, id, d)

SkillNext == Propose \/ Edit \/ DeleteSkill \/ Approve \/ Reject

SkillSpec == Init /\ [][SkillNext]_vars

\* The same handlers when every token comes from auth_routes.login.
LoginPropose == \E d \in ProposeInputs : create_skill(LoginIdentity(1), d)

LoginEdit ==
    \E u \in {LoginIdentity(1), LoginIdentity(2)}, id \in SkillIds, d \in EditInputs :
        update_skill(u, id, d)

LoginDelete ==
    \E u \in {LoginIdentity(1), LoginIdentity(2)}, id \in SkillIds : delete_skill(u, id)

LoginNext == LoginPropose \/ LoginEdit \/ LoginDelete \/ Approve \/ Reject

LoginSpec == Init /\ [][LoginNext]_vars

--------------------------------------------------------------------------
(* The skill handlers over names at the length of the column: user 1         *)
(* proposes and renames, user 3 moderates.                                    *)

\* A name of exactly MaxNameLen characters, and one that is one longer
FullName == [i \in 1 .. MaxNameLen |-> "n"]
OverlongName == [i \in 1 .. MaxNameLen + 1 |-> "n"]

NameInputs == {<<"a">>, <<" ", "a">>, FullName, OverlongName}

NameProposeInputs == [name : NameInputs, description : {<< >>}, category : {<< >>}]

NameEditInputs == {[NoKeys EXCEPT !.name = <<n>>] : n \in NameInputs}

NamePropose == \E d \in NameProposeInputs : create_skill(StandaloneIdentity(1), d)

NameEdit ==
    \E id \in SkillIds, d \in NameEditInputs : update_skill(StandaloneIdentity(1), id, d)

NameDelete == \E id \in SkillIds : delete_skill(StandaloneIdentity(1), id)

NameNext == NamePropose \/ NameEdit \/ NameDelete \/ Approve \/ Reject

NameSpec == Init /\ [][NameNext]_vars

--------------------------------------------------------------------------
(* Propose calls that overlap in time, each in its own session: the lookup   *)
(* in one step, the commit in a later one; renames, deletes and moderation   *)
(* run in between.                                                            *)

BeginPropose(p, user_id, data) ==
    LET r == create_skill_response(skills, user_id, data)
    IN  /\ procs[p] = Idle
        /\ IF r.code \in {201, 500}
           THEN /\ procs' = [procs EXCEPT ![p] = Pending("propose", user_id, 0, data)]
                /\ UNCHANGED last
           ELSE /\ last' = [op |-> "propose", actor |-> user_id, id |-> 0, data |-> data,
                            row |-> << >>, resp |-> r]
                /\ UNCHANGED procs
        /\ UNCHANGED <<users, requests, succeeded, skills>>

\* The INSERT of the commit: the UNIQUE index on skills.name refuses a name
\* that a row holds by now, and the handler answers 500.
CommitPropose(p) ==
    LET c == procs[p]
        id == NextId(skills)
    IN  /\ c.op = "propose"
        /\ IF NameTaken(skills, 0, NewSkill(c.actor, c.data).name)
           THEN /\ last' = [op |-> "propose", actor |-> c.actor, id |-> 0,
                            data |-> c.data, row |-> << >>,
                            resp |-> Resp(500, "Failed to create skill", << >>)]
                /\ UNCHANGED skills
           ELSE /\ id <= MaxSkills
                /\ skills' = skills @@ (id :> NewSkill(c.actor, c.data))
                /\ last' = [op |-> "propose", actor |-> c.actor, id |-> 0,
                            data |-> c.data, row |-> << >>,
                            resp |-> Resp(201,
                                "Skill created successfully and is pending approval",
                                <<skills'[id]>>)]
        /\ procs' = [procs EXCEPT ![p] = Idle]
        /\ UNCHANGED <<users, requests, succeeded>>

ConcNameInputs == {<<"a">>, FullName, OverlongName}

ConcProposeInputs == [name : ConcNameInputs, description : {<< >>}, category : {<< >>}]

ConcRenameInputs == {[NoKeys EXCEPT !.name = <<n>>] : n \in ConcNameInputs}

ConcPropose ==
    \E p \in Procs, d \in ConcProposeInputs : BeginPropose(p, StandaloneIdentity(1), d)

ConcProposeCommit == \E p \in Procs : CommitPropose(p)

ConcRename ==
    \E id \in SkillIds, d \in ConcRenameInputs :
        update_skill(StandaloneIdentity(1), id, d)

ConcSkillNext ==
    \/ ConcPropose \/ ConcProposeCommit
    \/ ConcRename \/ NameDelete \/ Approve \/ Reject

ConcSkillSpec == Init /\ [][ConcSkillNext]_vars

--------------------------------------------------------------------------
(* Moderation calls that overlap in time.  Each call loads the row in its    *)
(* own session, assigns its attributes, and commits in a later step; the     *)
(* UPDATE of the commit sets the columns whose assigned value differs from   *)
(* the value the session loaded, and no others.                              *)

Loaded(op, user_id, skill_id, data, row) ==
    [op |-> op, actor |-> user_id, id |-> skill_id, data |-> data, row |-> row]

\* The row after UPDATE ... SET <changed columns> WHERE id = ...
FlushChanged(current, loaded, assigned) ==
    [c \in DOMAIN current |->
        IF assigned[c] # loaded[c] THEN assigned[c] ELSE current[c]]

BeginApprove(p, user_id, skill_id) ==
    /\ procs[p] = Idle
    /\ IF skill_id \in DOMAIN skills
       THEN /\ procs' = [procs EXCEPT
                           ![p] = Loaded("approve", user_id, skill_id, << >>,
                                         skills[skill_id])]
            /\ UNCHANGED last
       ELSE /\ last' = [op |-> "approve", actor |-> user_id, id |-> skill_id,
                        data |-> << >>, row |-> << >>,
                        resp |-> Resp(404, "Skill not found", << >>)]
            /\ UNCHANGED procs
    /\ UNCHANGED <<users, requests, succeeded, skills>>

BeginReject(p, user_id, skill_id, data) ==
    /\ procs[p] = Idle
    /\ IF RejectReason(data) # << >> /\ skill_id \in DOMAIN skills
       THEN /\ procs' = [procs EXCEPT
                           ![p] = Loaded("reject", user_id, skill_id, data,
                                         skills[skill_id])]
            /\ UNCHANGED last
       ELSE /\ last' = [op |-> "reject", actor |-> user_id, id |-> skill_id,
                        data |-> data, row |-> SkillRead(skills, skill_id),
                        resp |-> IF RejectReason(data) = << >>
                                 THEN Resp(400, "Rejection reason is required", << >>)
                                 ELSE Resp(404, "Skill not found", << >>)]
            /\ UNCHANGED procs
    /\ UNCHANGED <<users, requests, succeeded, skills>>

\* db.session.commit() of approve_skill or reject_skill.  Nothing assigned
\* differs: no UPDATE.  The row is gone: the flush raises, 500.
CommitModeration(p) ==
    LET c == procs[p]
        assigned == IF c.op = "approve" THEN ApprovedSkill(c.row)
                    ELSE RejectedSkill(c.row, c.data)
        ok == Resp(200, IF c.op = "approve" THEN "Skill approved successfully"
                        ELSE "Skill rejected successfully", << >>)
    IN  /\ c.op \in {"approve", "reject"}
        /\ IF assigned = c.row
           THEN /\ UNCHANGED skills
                /\ last' = [op |-> c.op, actor |-> c.actor, id |-> c.id,
                            data |-> c.data, row |-> <<c.row>>, resp |-> ok]
           ELSE IF c.id \notin DOMAIN skills
           THEN /\ UNCHANGED skills
                /\ last' = [op |-> c.op, actor |-> c.actor, id |-> c.id,
                            data |-> c.data, row |-> <<c.row>>,
                            resp |-> Resp(500, IF c.op = "approve"
                                               THEN "Failed to approve skill"
                                               ELSE "Failed to reject skill", << >>)]
           ELSE /\ skills' = [skills EXCEPT
                                ![c.id] = FlushChanged(@, c.row, assigned)]
                /\ last' = [op |-> c.op, actor |-> c.actor, id |-> c.id,
                            data |-> c.data, row |-> <<c.row>>, resp |-> ok]
        /\ procs' = [procs EXCEPT ![p] = Idle]
        /\ UNCHANGED <<users, requests, succeeded>>

ModProposeInputs == [name : {<<"a">>, <<"b">>}, description : {<< >>}, category : {<< >>}]

ModRejectInputs == [reason : {<<" ">>, <<" ", "n", "o">>}]

ModPropose == \E d \in ModProposeInputs : create_skill(LoginIdentity(1), d)

ModApprove == \E p \in Procs, id \in SkillIds : BeginApprove(p, Moderator, id)

ModReject ==
    \E p \in Procs, id \in SkillIds, d \in ModRejectInputs :
        BeginReject(p, Moderator, id, d)

ModCommit == \E p \in Procs : CommitModeration(p)

ModNext == ModPropose \/ ModApprove \/ ModReject \/ ModCommit

ModSpec == Init /\ [][ModNext]_vars

--------------------------------------------------------------------------
(* The public listing between proposals, edits and moderation.               *)

ListProposeInputs ==
    [name : {<<"a">>, <<"B">>}, description : {<< >>}, category : {<< >>, <<"c">>}]

ListEditInputs == {[NoKeys EXCEPT !.description = << <<"d">> >>]}

ListRejectInputs == [reason : {<<"n", "o">>}]

\* ?category= and ?search= of the query string
ListArgs == [category : {<< >>, << << >> >>, << <<"c">> >>},
             search : {<< >>, << <<" ", "b">> >>}]

ListPropose == \E d \in ListProposeInputs : create_skill(StandaloneIdentity(1), d)

ListEdit ==
    \E id \in SkillIds, d \in ListEditInputs : update_skill(StandaloneIdentity(1), id, d)

ListApprove == \E id \in SkillIds : approve_skill(Moderator, id)

ListReject ==
    \E id \in SkillIds, d \in ListRejectInputs : reject_skill(Moderator, id, d)

ListApproved == \E a \in ListArgs : get_skills(a)

ShowSkill == \E id \in SkillIds : get_skill_by_id(id)

ListNext ==
    \/ ListPropose \/ ListEdit \/ ListApprove \/ ListReject
    \/ ListApproved \/ ShowSkill

ListSpec == Init /\ [][ListNext]_vars

--------------------------------------------------------------------------
(* The store failing at the commit of a handler: db.session.commit() raises,  *)
(* the except clause of the handler rolls the session back and answers 500.   *)
(* commits counts the db.session.commit() calls the run made before it        *)
(* answered: the try block holds one and no loop.                             *)

CommitRaises(p) ==
    LET c == procs[p]
    IN  /\ c.op \in {"create", "update"}
        /\ last' = [op |-> c.op, actor |-> c.actor, id |-> c.id, data |-> c.data,
                    row |-> << >>,
                    resp |-> Resp(500,
                                  IF c.op = "create"
                                  THEN "Failed to create swap request"
                                  ELSE "Failed to update swap request", << >>),
                    commits |-> 1]
        /\ procs' = [procs EXCEPT ![p] = Idle]
        /\ UNCHANGED <<users, requests, succeeded, skills>>

FaultNext ==
    \/ \E d \in ConcCreateInputs : BeginCreate("p1", 1, d)
    \/ CommitCreate("p1")
    \/ \E u \in Requesters, id \in RequestIds, d \in ConcUpdateInputs :
            BeginUpdate("p1", u, id, d)
    \/ CommitUpdate("p1")
    \/ CommitRaises("p1")

FaultSpec == Init /\ [][FaultNext]_vars

--------------------------------------------------------------------------
(* Creates whose offered skill is longer than the column keeps *)

\* One character more than skill_offered keeps
LongSkill == [i \in 1 .. MaxSkillLen + 1 |-> "s"]

TruncNext ==
    \/ \E d \in [receiverId : {JInt(2)}, skillOffered : {<<"p", "y">>, LongSkill},
                 skillWanted : SkillWantedInputs, message : MessageInputs] :
            create_swap_request(1, d)
    \/ \E u \in Requesters, id \in RequestIds, d \in ConcUpdateInputs :
            update_swap_request(u, id, d)

TruncSpec == Init /\ [][TruncNext]_vars

--------------------------------------------------------------------------
(* Requests and skills in one store: every handler that writes, with calls   *)
(* that each of its early returns and each refused commit answers.           *)

WholeNext ==
    \/ \E u \in Requesters,
          d \in [receiverId : {JNull, JInt(2)}, skillOffered : {<<"p", "y">>},
                 skillWanted : SkillWantedInputs, message : MessageInputs] :
            create_swap_request(u, d)
    \/ \E u \in Requesters, id \in RequestIds,
          d \in [status : {"accepted", "pending"},
                 acceptanceMessage : AcceptanceMessageInputs] :
            update_swap_request(u, id, d)
    \/ \E u \in Requesters, id \in RequestIds : delete_swap_request(u, id)
    \/ \E d \in [name : {<<" ">>, FullName, OverlongName}, description : {<< >>},
                 category : {<< >>}] :
            create_skill(StandaloneIdentity(1), d)
    \/ \E u \in Requesters, id \in SkillIds,
          d \in {[NoKeys EXCEPT !.name = <<n>>] : n \in {<<"a">>, FullName}} :
            update_skill(StandaloneIdentity(u), id, d)
    \/ \E id \in SkillIds : approve_skill(Moderator, id)
    \/ \E id \in SkillIds, d \in [reason : {<<" ">>, <<"n", "o">>}] :
            reject_skill(Moderator, id, d)

WholeSpec == Init /\ [][WholeNext]_vars

--------------------------------------------------------------------------
(* Requests in both directions between two users, for a pair of skills and   *)
(* for the pair swapped                                                       *)

DirNext ==
    \/ \E u \in Requesters, o \in {<<"p", "y">>, <<"g", "o">>} :
            create_swap_request(u, [receiverId   |-> JInt(3 - u),
                                    skillOffered |-> o,
                                    skillWanted  |-> IF o = <<"g", "o">>
                                                     THEN <<"p", "y">> ELSE <<"g", "o">>,
                                    message      |-> << >>])
    \/ \E u \in Requesters, id \in RequestIds, d \in ConcUpdateInputs :
            update_swap_request(u, id, d)
    \/ \E u \in Requesters, id \in RequestIds : delete_swap_request(u, id)

DirSpec == Init /\ [][DirNext]_vars

--------------------------------------------------------------------------
(* The create of either application, on one database; user 2 banned and      *)
(* unbanned in between                                                        *)

RouteNext ==
    \/ \E u \in Requesters, d \in CreateInputs : create_swap_request(u, d)
    \/ \E u \in Requesters, d \in CreateInputs : standalone_create_swap_request(u, d)
    \/ \E d \in BanInputs : ban_user(2, d)
    \/ unban_user(2)

RouteSpec == Init /\ [][RouteNext]_vars

--------------------------------------------------------------------------
(* Moderation by every kind of caller: the creator of the skill, another     *)
(* user, with a token of either login.                                        *)

AnyPropose ==
    \E d \in [name : {<<"a">>, <<"b">>}, description : {<< >>}, category : {<< >>}] :
        create_skill(LoginIdentity(1), d)

AnyApprove ==
    \E u \in Editors \cup {Moderator}, id \in SkillIds : approve_skill(u, id)

AnyReject ==
    \E u \in Editors \cup {Moderator}, id \in SkillIds,
       d \in [reason : {<<" ">>, <<" ", "n", "o", " ">>}] :
        reject_skill(u, id, d)

AnyNext == AnyPropose \/ AnyApprove \/ AnyReject

AnySpec == Init /\ [][AnyNext]_vars

--------------------------------------------------------------------------
(* The failure kinds of the specification, as the responses that carry them *)

Forbidden(r) == r.code = 403

NotFound(r) == r.code = 404

Conflict(r) ==
    /\ r.code = 400
    /\ r.msg \in {"You already have a pending request for these skills with this user",
                  "Skill already exists"}

InvalidState(r) == r.code = 400 /\ r.msg = "Cannot update request with status"

InvalidArgument(r) == r.code = 400 /\ ~Conflict(r) /\ ~InvalidState(r)

\* The kind a client reads off a response: the HTTP status, and for a 400 the
\* wording of the message.
KindOfResponse(r) ==
    IF Forbidden(r) THEN "Forbidden"
    ELSE IF NotFound(r) THEN "NotFound"
    ELSE IF Conflict(r) THEN "Conflict"
    ELSE IF InvalidState(r) THEN "InvalidState"
    ELSE IF InvalidArgument(r) THEN "InvalidArgument"
    ELSE "none"

\* The check of create_swap_request that refuses the call, by the failure
\* kind that check stands for.
create_swap_request_failure(reqs, usrs, user_id, data) ==
    LET receiver_id == data.receiverId
        skill_offered == Strip(data.skillOffered)
        skill_wanted == Strip(data.skillWanted)
    IN  IF ~PyTruthy(receiver_id) THEN "InvalidArgument"
        ELSE IF skill_offered = << >> \/ skill_wanted = << >> THEN "InvalidArgument"
        ELSE IF ~ReceiverAvailable(usrs, receiver_id) THEN "NotFound"
        ELSE IF PyEqInt(user_id, receiver_id) THEN "InvalidArgument"
        ELSE IF ExistingRequest(reqs, user_id, receiver_id, skill_offered, skill_wanted)
        THEN "Conflict"
        ELSE "none"

\* The check of update_swap_request that refuses the call, likewise.
update_swap_request_failure(row, user_id, data) ==
    IF row = << >> THEN "NotFound"
    ELSE IF ~can_be_updated_by(row[1], user_id) THEN "Forbidden"
    ELSE IF data.status \notin valid_statuses THEN "InvalidArgument"
    ELSE IF NotReceiverDeciding(row[1], user_id, data.status) THEN "Forbidden"
    ELSE IF NotRequesterCancelling(row[1], user_id, data.status) THEN "Forbidden"
    ELSE IF NoLongerPending(row[1]) THEN "InvalidState"
    ELSE "none"

Statuses == {"pending", "accepted", "rejected", "cancelled"}

Terminal == {"accepted", "rejected", "cancelled"}

\* The last call was an update that found its row.
UpdateOnRow == last.op = "update" /\ last.row # << >>

\* The actor the authorization table permits for the target status.
Permitted(user_id, target, row) ==
    \/ target \in {"accepted", "rejected"} /\ user_id = row.receiver_id
    \/ target = "cancelled" /\ user_id = row.requester_id

\* A pending row whose stored tuple is (user_id, receiver, offered, wanted) of
\* the body, the skills trimmed.
PendingTwin(reqs, user_id, data) ==
    \E k \in DOMAIN reqs :
        /\ reqs[k].status = "pending"
        /\ reqs[k].requester_id = user_id
        /\ reqs[k].receiver_id = data.receiverId.v
        /\ reqs[k].skill_offered = Strip(data.skillOffered)
        /\ reqs[k].skill_wanted = Strip(data.skillWanted)

--------------------------------------------------------------------------
(* Claims *)

\* C1: a request's status is always one of pending, accepted, rejected,
\* cancelled; a new request is pending; and whenever the status of a stored
\* request changes, it changes from pending to accepted, rejected or
\* cancelled, so that it is never pending again.
C1_StatusLifecycle ==
    /\ [](\A k \in DOMAIN requests : requests[k].status \in Statuses)
    /\ [][/\ \A k \in DOMAIN requests' \ DOMAIN requests :
                requests'[k].status = "pending"
          /\ \A k \in DOMAIN requests \cap DOMAIN requests' :
                requests'[k].status # requests[k].status
                    => /\ requests[k].status = "pending"
                       /\ requests'[k].status \in Terminal]_vars

\* C1 witness: an update was tried on a request that had left pending, and
\* the request kept its status.
C1_Witness ==
    /\ UpdateOnRow
    /\ last.row[1].status = "rejected"
    /\ last.data.status = "accepted"
    /\ last.actor = last.row[1].receiver_id
    /\ requests[last.id].status = "rejected"

\* C2: once the status of a request is accepted, rejected or cancelled, no
\* step changes it, also when update calls on the request overlap.
C2_TerminalIsFinal ==
    [][\A k \in DOMAIN requests \cap DOMAIN requests' :
            requests[k].status \in Terminal
                => requests'[k].status = requests[k].status]_vars

\* C3: no two pending requests have the same (requester, receiver,
\* skill_offered, skill_wanted), also when create calls overlap.
C3_OnePendingPerTuple ==
    \A j, k \in DOMAIN requests :
        (/\ j # k
         /\ requests[j].status = "pending"
         /\ requests[k].status = "pending")
            => <<requests[j].requester_id, requests[j].receiver_id,
                 requests[j].skill_offered, requests[j].skill_wanted>>
               # <<requests[k].requester_id, requests[k].receiver_id,
                   requests[k].skill_offered, requests[k].skill_wanted>>

\* C4: at most one update call on a request ever answers success.
C4_OneSuccessPerRequest == \A k \in DOMAIN succeeded : succeeded[k] <= 1

\* C5: an update to accepted or rejected by anyone but the receiver of the
\* request answers Forbidden and leaves the request as it was, whatever the
\* status of the request.
C5_OnlyReceiverDecides ==
    (/\ UpdateOnRow
     /\ last.data.status \in {"accepted", "rejected"}
     /\ last.actor # last.row[1].receiver_id)
        => /\ Forbidden(last.resp)
           /\ requests[last.id] = last.row[1]

\* C5 witness: the requester tried to accept a request that was already
\* accepted and got Forbidden.
C5_Witness ==
    /\ UpdateOnRow
    /\ last.data.status = "accepted"
    /\ last.actor = last.row[1].requester_id
    /\ last.actor # last.row[1].receiver_id
    /\ last.row[1].status = "accepted"
    /\ Forbidden(last.resp)

\* C6 as stated: an update of a request that is not pending answers
\* InvalidState with the current status, whoever the actor is.
C6_AlwaysInvalidState ==
    (UpdateOnRow /\ last.row[1].status # "pending")
        => /\ InvalidState(last.resp)
           /\ last.resp.detail = <<last.row[1].status>>

\* C6 amended: an update of a request that is not pending never succeeds and
\* leaves the request as it was; it answers InvalidState with the current
\* status exactly when the actor is the one permitted for the target status,
\* InvalidArgument when the requester or receiver names no valid target, and
\* Forbidden otherwise.
C6_InvalidStateWhenPermitted ==
    (UpdateOnRow /\ last.row[1].status # "pending")
        => LET row == last.row[1]
               target == last.data.status
           IN  /\ last.resp.code # 200
               /\ requests[last.id] = row
               /\ IF Permitted(last.actor, target, row)
                  THEN /\ InvalidState(last.resp)
                       /\ last.resp.detail = <<row.status>>
                  ELSE IF can_be_updated_by(row, last.actor)
                          /\ target \notin valid_statuses
                  THEN InvalidArgument(last.resp)
                  ELSE Forbidden(last.resp)

\* C6 witness: the receiver tried to reject a request it had accepted and got
\* InvalidState naming accepted.
C6_Witness ==
    /\ UpdateOnRow
    /\ last.row[1].status = "accepted"
    /\ last.data.status = "rejected"
    /\ last.actor = last.row[1].receiver_id
    /\ InvalidState(last.resp)
    /\ last.resp.detail = <<"accepted">>

\* C7: an update to cancelled by anyone but the requester answers Forbidden
\* and leaves the request as it was; it succeeds only for the requester, and
\* by the requester on a pending request it sets the status to cancelled.
C7_OnlyRequesterCancels ==
    (UpdateOnRow /\ last.data.status = "cancelled")
        => LET row == last.row[1]
           IN  /\ last.actor # row.requester_id
                    => Forbidden(last.resp) /\ requests[last.id] = row
               /\ last.resp.code = 200 => last.actor = row.requester_id
               /\ (last.actor = row.requester_id /\ row.status = "pending")
                    => /\ last.resp.code = 200
                       /\ requests[last.id] = [row EXCEPT !.status = "cancelled"]

\* C7 witness: the receiver tried to cancel a pending request, got Forbidden,
\* and the request is still pending.
C7_Witness ==
    /\ UpdateOnRow
    /\ last.data.status = "cancelled"
    /\ last.actor = last.row[1].receiver_id
    /\ last.actor # last.row[1].requester_id
    /\ last.row[1].status = "pending"
    /\ Forbidden(last.resp)
    /\ requests[last.id].status = "pending"

\* C8 as stated: a create by A to another user B for (o, w), while a pending request with
\* that tuple is stored, answers Conflict and stores nothing.
C8_DuplicateIsConflict ==
    [][(/\ last'.op = "create"
        /\ PendingTwin(requests, last'.actor, last'.data)
        /\ last'.data.receiverId.v # last'.actor)
            => Conflict(last'.resp) /\ requests' = requests]_vars

\* C8 amended: a create by A to another user B for (o, w), while a pending
\* request with that tuple is stored, stores nothing; it answers Conflict when
\* B is not banned, and NotFound when B is banned.
C8_DuplicateRefused ==
    [][(/\ last'.op = "create"
        /\ PendingTwin(requests, last'.actor, last'.data)
        /\ last'.data.receiverId.v # last'.actor)
            => /\ requests' = requests
               /\ IF users[last'.data.receiverId.v].is_banned
                  THEN NotFound(last'.resp)
                  ELSE Conflict(last'.resp)]_vars

\* C8 witness: a create repeated the tuple of a stored pending request and
\* got Conflict.
C8_Witness ==
    /\ last.op = "create"
    /\ Conflict(last.resp)
    /\ last.data.receiverId.v # last.actor
    /\ PendingTwin(requests, last.actor, last.data)
    /\ Cardinality(DOMAIN requests) = 1

\* C9: a create whose receiver is the requester answers InvalidArgument and
\* stores nothing, whatever the state of the store.
C9_SelfRequestRefused ==
    [][(last'.op = "create" /\ last'.data.receiverId.v = last'.actor)
            => InvalidArgument(last'.resp) /\ requests' = requests]_vars

\* C10: every stored request has a receiver other than its requester.
C10_NoSelfRequest ==
    \A k \in DOMAIN requests : requests[k].requester_id # requests[k].receiver_id

\* A create whose body breaks a precondition of Create: the receiver id names
\* no user, the receiver is banned, or a skill is blank once trimmed.
BreaksPrecondition(usrs, data) ==
    \/ data.receiverId.v \notin DOMAIN usrs
    \/ usrs[data.receiverId.v].is_banned
    \/ Strip(data.skillOffered) = << >>
    \/ Strip(data.skillWanted) = << >>

C12_CreateAddsOne ==
    [][(last'.op = "create" /\ last'.resp.code = 201)
            => /\ \E id \in DOMAIN requests' \ DOMAIN requests :
                    /\ DOMAIN requests' = DOMAIN requests \cup {id}
                    /\ requests'[id].status = "pending"
                    /\ requests'[id].requester_id = last'.actor
                    /\ requests'[id].receiver_id = last'.data.receiverId.v
                    /\ requests'[id].skill_offered
                            = sanitize_string(last'.data.skillOffered, MaxSkillLen)
                    /\ requests'[id].skill_wanted
                            = sanitize_string(last'.data.skillWanted, MaxSkillLen)
                    /\ requests'[id].acceptance_message = << >>
                    /\ last'.resp.detail = <<requests'[id]>>
               /\ \A k \in DOMAIN requests : requests'[k] = requests[k]
               /\ users' = users
               /\ skills' = skills]_vars

\* C12 witness: a create succeeded while another request was stored; the new
\* request is the second row and holds the skill of the body without the
\* blanks around it.
C12_Witness ==
    /\ last.op = "create"
    /\ last.resp.code = 201
    /\ Cardinality(DOMAIN requests) = 2
    /\ last.data.skillOffered = <<" ", "p", "y", " ">>
    /\ last.resp.detail[1].skill_offered = <<"p", "y">>
    /\ \E k \in DOMAIN requests : requests[k].status # "pending"

\* The last call was a delete that found its row.
DeleteOnRow == last.op = "delete" /\ last.row # << >>

\* C13: a delete of a stored request succeeds exactly when the caller is the
\* requester of the request, whatever its status; when it succeeds the request
\* is gone, and a delete by anyone else answers Forbidden and leaves the
\* request as it was.
C13_OnlyRequesterDeletes ==
    DeleteOnRow
        => LET row == last.row[1]
           IN  /\ last.resp.code = 200 <=> last.actor = row.requester_id
               /\ last.resp.code = 200 => last.id \notin DOMAIN requests
               /\ last.actor # row.requester_id
                    => /\ Forbidden(last.resp)
                       /\ last.id \in DOMAIN requests
                       /\ requests[last.id] = row

\* C13 witness: the requester deleted a request the receiver had accepted,
\* and the request is gone while another one is still stored.
C13_Witness ==
    /\ DeleteOnRow
    /\ last.row[1].status = "accepted"
    /\ last.actor = last.row[1].requester_id
    /\ last.actor # last.row[1].receiver_id
    /\ last.resp.code = 200
    /\ last.id \notin DOMAIN requests
    /\ requests # << >>

\* C14: a view of a stored request returns the request exactly when the
\* caller is its requester or its receiver and answers Forbidden to every
\* other caller; no view changes a request, a user or a skill.
C14_ViewForParties ==
    /\ [](( last.op = "view" /\ last.row # << >>)
            => LET row == last.row[1]
               IN  IF last.actor \in {row.requester_id, row.receiver_id}
                   THEN last.resp.code = 200 /\ last.resp.detail = <<row>>
                   ELSE Forbidden(last.resp) /\ last.resp.detail = << >>)
    /\ [][last'.op = "view"
            => requests' = requests /\ users' = users /\ skills' = skills]_vars

\* C14 witness: the receiver of a rejected request viewed it and got the row.
C14_Witness ==
    /\ last.op = "view"
    /\ last.row # << >>
    /\ last.actor = last.row[1].receiver_id
    /\ last.actor # last.row[1].requester_id
    /\ last.row[1].status = "rejected"
    /\ last.resp.code = 200
    /\ last.resp.detail = <<requests[last.id]>>

\* C15 as stated: after a successful update to accepted or rejected whose
\* acceptanceMessage is not empty, the acceptance message of the request is
\* that message trimmed and cut to 500 characters; a successful update to
\* cancelled leaves the acceptance message unset.
C15_MessageAttached ==
    (UpdateOnRow /\ last.resp.code = 200)
        => /\ (/\ last.data.status \in {"accepted", "rejected"}
                /\ last.data.acceptanceMessage # << >>)
                => requests[last.id].acceptance_message
                      = <<sanitize_string(last.data.acceptanceMessage, MaxMessageLen)>>
           /\ last.data.status = "cancelled"
                => requests[last.id].acceptance_message = << >>

\* C15 amended: after a successful update to accepted or rejected whose
\* acceptanceMessage is not blank once trimmed, the acceptance message of the
\* request is that message trimmed and then cut to 500 characters; when the
\* message is missing, empty or blank the request keeps no acceptance message;
\* a successful update to cancelled leaves the acceptance message unset.
C15_MessageAttachedUnlessBlank ==
    (UpdateOnRow /\ last.resp.code = 200)
        => /\ (/\ last.data.status \in {"accepted", "rejected"}
                /\ Strip(last.data.acceptanceMessage) # << >>)
                => /\ requests[last.id].acceptance_message
                        = <<sanitize_string(last.data.acceptanceMessage, MaxMessageLen)>>
                   /\ Len(requests[last.id].acceptance_message[1]) <= MaxMessageLen
           /\ (/\ last.data.status \in {"accepted", "rejected"}
                /\ Strip(last.data.acceptanceMessage) = << >>)
                => requests[last.id].acceptance_message = << >>
           /\ last.data.status = "cancelled"
                => requests[last.id].acceptance_message = << >>

\* C15 witness: the receiver accepted with a message longer than 500
\* characters and the request holds its first 500 characters after the
\* leading blank.
C15_Witness ==
    /\ UpdateOnRow
    /\ last.resp.code = 200
    /\ last.data.status = "accepted"
    /\ last.data.acceptanceMessage = LongMessage
    /\ requests[last.id].acceptance_message
         = <<SubSeq(LongMessage, 2, MaxMessageLen + 1)>>

\* C16: an update by the requester or the receiver of a pending request whose
\* status is none of accepted, rejected, cancelled (pending and a body
\* without status among them) answers InvalidArgument and leaves the request
\* as it was.
C16_InvalidTargetRefused ==
    (/\ UpdateOnRow
     /\ last.row[1].status = "pending"
     /\ can_be_updated_by(last.row[1], last.actor)
     /\ last.data.status \notin Terminal)
        => /\ InvalidArgument(last.resp)
           /\ requests[last.id] = last.row[1]

\* C16 witness: the receiver of a pending request sent a body without status,
\* got InvalidArgument, and the request is still pending.
C16_Witness ==
    /\ UpdateOnRow
    /\ last.row[1].status = "pending"
    /\ last.actor = last.row[1].receiver_id
    /\ last.data.status = PyNone
    /\ InvalidArgument(last.resp)
    /\ requests[last.id].status = "pending"

\* C17: the response of every refused create or update tells its failure
\* kind: Forbidden, NotFound, and among the 400 answers Conflict, InvalidState
\* and InvalidArgument each have a response no other kind has; a requester
\* that tries to accept a pending request gets Forbidden, which is neither the
\* InvalidState answer nor the Conflict answer.
C17_KindsDistinguishable ==
    /\ (last.op = "create" /\ last.resp.code # 201)
            => KindOfResponse(last.resp)
                 = create_swap_request_failure(requests, users, last.actor, last.data)
    /\ (last.op = "update" /\ last.resp.code \notin {200, 500})
            => KindOfResponse(last.resp)
                 = update_swap_request_failure(last.row, last.actor, last.data)
    /\ (/\ UpdateOnRow
         /\ last.row[1].status = "pending"
         /\ last.actor = last.row[1].requester_id
         /\ last.actor # last.row[1].receiver_id
         /\ last.data.status = "accepted")
            => /\ Forbidden(last.resp)
               /\ ~InvalidState(last.resp)
               /\ ~Conflict(last.resp)

\* C17 witness: the requester tried to accept its pending request and got
\* Forbidden, with a message other than those of InvalidState and Conflict.
C17_Witness ==
    /\ UpdateOnRow
    /\ last.row[1].status = "pending"
    /\ last.actor = last.row[1].requester_id
    /\ last.actor # last.row[1].receiver_id
    /\ last.data.status = "accepted"
    /\ KindOfResponse(last.resp) = "Forbidden"
    /\ last.resp.msg = "Only the receiver can accept or reject requests"

\* The last call was an edit or a delete of a skill that found its row.
SkillCallOnRow == last.op \in {"edit", "delete_skill"} /\ last.row # << >>

\* C18: after every successful edit the skill is pending and has no rejection
\* reason, whatever its status was and whatever keys the body has.
C18_EditResetsToPending ==
    (last.op = "edit" /\ last.resp.code = 200)
        => /\ skills[last.id].status = "pending"
           /\ skills[last.id].rejection_reason = << >>
           /\ last.resp.detail = <<skills[last.id]>>

\* C18 witness: an edit without any key succeeded on a rejected skill, which
\* is pending again and has lost its reason.
C18_Witness ==
    /\ last.op = "edit"
    /\ last.resp.code = 200
    /\ last.data = NoKeys
    /\ last.row[1].status = "rejected"
    /\ last.row[1].rejection_reason = << <<"n", "o">> >>
    /\ skills[last.id].status = "pending"
    /\ skills[last.id].rejection_reason = << >>

\* C19: an edit or a delete of a stored skill by a caller other than the user
\* in created_by answers Forbidden and leaves the skill stored, with its name,
\* description, category, status and rejection reason as they were.
C19_OnlyCreatorChanges ==
    (SkillCallOnRow /\ last.actor.v # last.row[1].created_by)
        => /\ Forbidden(last.resp)
           /\ last.id \in DOMAIN skills
           /\ skills[last.id] = last.row[1]

\* C19 witness: user 2 tried to delete an approved skill of user 1, got
\* Forbidden, and the skill is still stored and approved.
C19_Witness ==
    /\ last.op = "delete_skill"
    /\ last.row # << >>
    /\ last.actor = StandaloneIdentity(2)
    /\ last.row[1].created_by = 1
    /\ last.row[1].status = "approved"
    /\ Forbidden(last.resp)
    /\ skills[last.id].status = "approved"

\* C20: when the user that proposed a skill edits the description of the
\* skill after it was rejected, with the identity of the login that proposed
\* it, the edit succeeds and the skill is pending with no rejection reason.
C20_CreatorCanEdit ==
    (/\ last.op = "edit"
     /\ last.row # << >>
     /\ last.row[1].status = "rejected"
     /\ last.actor = LoginIdentity(last.row[1].created_by)
     /\ last.data.description # << >>)
        => /\ last.resp.code = 200
           /\ skills[last.id].status = "pending"
           /\ skills[last.id].rejection_reason = << >>

\* C21: a reject of a stored skill whose reason is missing, empty or blank
\* answers InvalidArgument and leaves the skill, its status and its rejection
\* reason among the rest, as it was, whatever the status of the skill.
C21_BlankReasonRefused ==
    (last.op = "reject" /\ last.row # << >> /\ Strip(last.data.reason) = << >>)
        => /\ InvalidArgument(last.resp)
           /\ skills[last.id] = last.row[1]

\* C21 witness: a reject with a reason of blanks only was tried on a rejected
\* skill, got InvalidArgument, and the skill still has its earlier reason.
C21_Witness ==
    /\ last.op = "reject"
    /\ last.row # << >>
    /\ last.data.reason = <<" ">>
    /\ last.row[1].status = "rejected"
    /\ InvalidArgument(last.resp)
    /\ skills[last.id].rejection_reason = << <<"n", "o">> >>

\* C22: a propose whose trimmed name is the name of a stored skill answers
\* Conflict, whatever the status of that skill, and adds nothing; a propose
\* whose trimmed name is not empty and is the name of no stored skill adds one
\* skill: pending, created by the caller, without rejection reason.
C22_ProposeConflictOrCreate ==
    [][last'.op = "propose"
        => LET name == Strip(last'.data.name)
           IN  IF \E k \in DOMAIN skills : skills[k].name = name
               THEN Conflict(last'.resp) /\ skills' = skills
               ELSE name # << >>
                    => /\ last'.resp.code = 201
                       /\ \E id \in DOMAIN skills' \ DOMAIN skills :
                            /\ DOMAIN skills' = DOMAIN skills \cup {id}
                            /\ skills'[id].status = "pending"
                            /\ skills'[id].created_by = last'.actor.v
                            /\ skills'[id].rejection_reason = << >>
                       /\ \A k \in DOMAIN skills : skills'[k] = skills[k]]_vars

\* C23: no two stored skills have the same name, whatever their statuses:
\* after proposes, edits with renames, approvals, rejections and deletes, and
\* when proposes of one name overlap.
C23_NamesUnique ==
    \A j, k \in DOMAIN skills : j # k => skills[j].name # skills[k].name

\* C23 witness: a propose passed the lookup while no skill had its name, the
\* name was stored before its commit, the commit was refused, and one skill
\* of the two stored has the name.
C23_Witness ==
    /\ last.op = "propose"
    /\ last.resp.code = 500
    /\ last.data.name = <<"a">>
    /\ Cardinality({k \in DOMAIN skills : skills[k].name = <<"a">>}) = 1
    /\ Cardinality(DOMAIN skills) = 2

\* C24: every stored skill that is pending or approved has no rejection
\* reason, and every stored skill that is rejected has a rejection reason that
\* is not empty.
C24_ReasonMatchesStatus ==
    \A k \in DOMAIN skills :
        IF skills[k].status = "rejected"
        THEN /\ skills[k].rejection_reason # << >>
             /\ skills[k].rejection_reason[1] # << >>
        ELSE skills[k].rejection_reason = << >>

\* The category a listing call asks for: none when the parameter is absent
\* or empty.
CategoryAsked(args) == args.category # << >> /\ args.category[1] # << >>

\* C25: a listing without search returns exactly the stored skills that are
\* approved, those of the category asked for when one is given, each once,
\* in ascending order of name, and never a pending or rejected skill; a show
\* of one skill returns it exactly when it is approved.  No listing and no
\* show changes a skill.
C25_ListingIsApproved ==
    /\ []((last.op = "list" /\ last.data.search = << >>)
            => LET listing == last.resp.detail
                   wanted == {k \in DOMAIN skills :
                                /\ skills[k].status = "approved"
                                /\ CategoryAsked(last.data)
                                     => skills[k].category = last.data.category[1]}
               IN  /\ Len(listing) = Cardinality(wanted)
                   /\ {listing[i] : i \in 1 .. Len(listing)}
                        = {skills[k] : k \in wanted}
                   /\ \A i \in 1 .. Len(listing) - 1 :
                        /\ listing[i].name # listing[i + 1].name
                        /\ NameLeq(listing[i].name, listing[i + 1].name)
                   /\ \A i \in 1 .. Len(listing) : listing[i].status = "approved")
    /\ []((last.op = "show" /\ last.row # << >>)
            => (last.resp.code = 200 <=> last.row[1].status = "approved"))
    /\ [][last'.op \in {"list", "show"} => skills' = skills]_vars

\* C25 witness: a listing without filter returned both stored skills, the
\* one proposed second first because its name sorts first.
C25_Witness ==
    /\ last.op = "list"
    /\ last.data.search = << >>
    /\ last.data.category = << >>
    /\ DOMAIN skills = {1, 2}
    /\ last.resp.detail = <<skills[2], skills[1]>>
    /\ skills[2].name = <<"B">>

\* C26: an approve of a stored skill by any caller, the creator of the skill
\* among them, succeeds whatever the status of the skill and leaves it
\* approved without rejection reason; a reject with a reason that is not
\* blank, by any caller, succeeds whatever the status and leaves the skill
\* rejected with the trimmed reason, cut to 500 characters; nothing else of
\* the skill changes.
C26_AnyoneModerates ==
    /\ (last.op = "approve" /\ last.row # << >>)
            => /\ last.resp.code = 200
               /\ skills[last.id] = [last.row[1] EXCEPT !.status = "approved",
                                                        !.rejection_reason = << >>]
    /\ (last.op = "reject" /\ last.row # << >> /\ Strip(last.data.reason) # << >>)
            => /\ last.resp.code = 200
               /\ skills[last.id]
                    = [last.row[1] EXCEPT
                         !.status = "rejected",
                         !.rejection_reason =
                             <<sanitize_string(last.data.reason, MaxMessageLen)>>]

\* C26 witness: the creator of a rejected skill approved it with its own
\* token, and the skill is approved without reason.
C26_Witness ==
    /\ last.op = "approve"
    /\ last.row # << >>
    /\ last.actor = LoginIdentity(last.row[1].created_by)
    /\ last.row[1].status = "rejected"
    /\ last.row[1].rejection_reason = << <<"n", "o">> >>
    /\ last.resp.code = 200
    /\ skills[last.id].status = "approved"
    /\ skills[last.id].rejection_reason = << >>

\* A stored string that is trimmed and at most cap characters long
Kept(text, cap) == Strip(text) = text /\ Len(text) <= cap

\* C27: in every reachable state every stored string is trimmed and within
\* its cap: the skill strings of a request and the name of a skill within
\* 100 characters, messages, descriptions and reasons within 500, categories
\* within 50, none with a leading or trailing blank.
C27_StoredStringsKept ==
    /\ \A k \in DOMAIN requests :
            /\ Kept(requests[k].skill_offered, MaxSkillLen)
            /\ Kept(requests[k].skill_wanted, MaxSkillLen)
            /\ Kept(requests[k].message, MaxMessageLen)
            /\ \A i \in DOMAIN requests[k].acceptance_message :
                    Kept(requests[k].acceptance_message[i], MaxMessageLen)
    /\ \A k \in DOMAIN skills :
            /\ Kept(skills[k].name, MaxNameLen)
            /\ Kept(skills[k].description, MaxDescriptionLen)
            /\ Kept(skills[k].category, MaxCategoryLen)
            /\ \A i \in DOMAIN skills[k].rejection_reason :
                    Kept(skills[k].rejection_reason[i], MaxMessageLen)

\* C28: a create or an update whose commit the store refuses with a failure
\* of its own answers the internal failure only after the run committed at
\* least twice, and leaves the requests as they were.
C28_FaultRetried ==
    [][(/\ procs["p1"] # Idle
        /\ procs'["p1"] = Idle
        /\ "commits" \in DOMAIN last'
        /\ last'.resp.code = 500)
            => /\ last'.commits >= 2
               /\ requests' = requests]_vars

\* C29: with handlers run one at a time, a create that succeeded leaves no
\* other pending request of the same requester to the same receiver with the
\* same stored skill_offered and skill_wanted as the request it stored, a
\* skill cut to 100 characters included.
C29_GuardOnStoredValues ==
    (last.op = "create" /\ last.resp.code = 201)
        => LET made == last.resp.detail[1]
           IN  Cardinality({k \in DOMAIN requests :
                              /\ requests[k].status = "pending"
                              /\ requests[k].requester_id = made.requester_id
                              /\ requests[k].receiver_id = made.receiver_id
                              /\ requests[k].skill_offered = made.skill_offered
                              /\ requests[k].skill_wanted = made.skill_wanted}) <= 1

\* C30: a propose that stored nothing because a skill holds the name it would
\* have stored answers Conflict, never the internal failure; a name cut to
\* 100 characters and a name stored by an overlapping propose included.
C30_CollisionIsConflict ==
    (/\ last.op = "propose"
     /\ last.resp.code # 201
     /\ \E k \in DOMAIN skills :
            skills[k].name = sanitize_string(Strip(last.data.name), MaxNameLen))
        => Conflict(last.resp)

\* A call of one of the handlers that write answered a failure
Failed(l) ==
    /\ l.op \in {"create", "update", "delete", "propose", "edit", "approve", "reject"}
    /\ l.resp.code \notin {200, 201}

\* C31: a create, update or delete of a request, or a propose, edit, approve
\* or reject of a skill, that answers a failure leaves every user, every
\* request and every skill as it was, none added and none removed.
C31_FailureChangesNothing ==
    [][Failed(last') => UNCHANGED <<users, requests, skills>>]_vars

\* C31 witness: with a request and two skills stored, an edit that renames a
\* skill to the name of the other was answered the internal failure.
C31_Witness ==
    /\ last.op = "edit"
    /\ last.resp.code = 500
    /\ requests # << >>
    /\ Cardinality(DOMAIN skills) = 2

\* C32: an update that succeeds leaves the requester, the receiver, the two
\* skills and the message of its request as they were, changes its acceptance
\* message only when the target is accepted or rejected and the message of
\* the body is not blank, and leaves every other request as it was, none
\* added and none removed.
C32_TransitionFrame ==
    [][(last'.op = "update" /\ last'.resp.code = 200)
        => /\ DOMAIN requests' = DOMAIN requests
           /\ \A k \in DOMAIN requests \ {last'.id} : requests'[k] = requests[k]
           /\ LET old == requests[last'.id]
                  new == requests'[last'.id]
              IN  /\ new.requester_id = old.requester_id
                  /\ new.receiver_id = old.receiver_id
                  /\ new.skill_offered = old.skill_offered
                  /\ new.skill_wanted = old.skill_wanted
                  /\ new.message = old.message
                  /\ new.status = last'.data.status
                  /\ new.acceptance_message # old.acceptance_message
                        => /\ last'.data.status \in {"accepted", "rejected"}
                           /\ Strip(last'.data.acceptanceMessage) # << >>]_vars

\* C32 witness: with two requests stored, the second was accepted with a
\* message while the first is still cancelled without one.
C32_Witness ==
    /\ last.op = "update"
    /\ last.resp.code = 200
    /\ last.id = 2
    /\ DOMAIN requests = {1, 2}
    /\ requests[2].status = "accepted"
    /\ requests[2].acceptance_message # << >>
    /\ requests[1].status = "cancelled"
    /\ requests[1].acceptance_message = << >>

\* C33: with handlers run one at a time, in every reachable state a request
\* that holds an acceptance message is accepted or rejected; a pending or
\* cancelled request holds none.
C33_MessageOnlyWhenDecided ==
    \A k \in DOMAIN requests :
        requests[k].status \in {"pending", "cancelled"}
            => requests[k].acceptance_message = << >>

\* C33 witness: the requester cancelled its request with a message in the
\* body, and the cancelled request holds no acceptance message.
C33_Witness ==
    /\ UpdateOnRow
    /\ last.resp.code = 200
    /\ last.data.status = "cancelled"
    /\ Strip(last.data.acceptanceMessage) # << >>
    /\ requests[last.id].status = "cancelled"
    /\ requests[last.id].acceptance_message = << >>

\* C34: a create by A to another user B for (o, w) succeeds and stores its
\* request whenever no pending request (A, B, o, w) is stored: after the
\* earlier request with that tuple was accepted, rejected, cancelled or
\* deleted, and while a request (B, A, o, w) or (A, B, w, o) is pending.
C34_GuardIsPendingTwin ==
    [][(/\ last'.op = "create"
        /\ last'.data.receiverId.v # last'.actor
        /\ ~PendingTwin(requests, last'.actor, last'.data))
            => /\ last'.resp.code = 201
               /\ DOMAIN requests' = DOMAIN requests \cup {NextId(requests)}
               /\ requests'[NextId(requests)].status = "pending"]_vars

\* C34 witness: user 1 created (1, 2, py, go) again after its first request
\* with that tuple was accepted.
C34_Witness ==
    /\ last.op = "create"
    /\ last.resp.code = 201
    /\ DOMAIN requests = {1, 2}
    /\ requests[1].status = "accepted"
    /\ requests[2].status = "pending"
    /\ \A k \in {1, 2} :
          /\ requests[k].requester_id = 1
          /\ requests[k].receiver_id = 2
          /\ requests[k].skill_offered = <<"p", "y">>
          /\ requests[k].skill_wanted = <<"g", "o">>

\* The users with the banned flag of user_id the other way round
Flipped(usrs, user_id) == [usrs EXCEPT ![user_id].is_banned = ~@]

\* C35: a create answers what it would have answered, and stores what it
\* would have stored, had the banned flag of its caller been the other way
\* round at the time of the call.
C35_ActorBanIrrelevant ==
    [][last'.op = "create"
        => LET other == create_swap_request_response(
                            requests, Flipped(users, last'.actor),
                            last'.actor, last'.data)
           IN  /\ last'.resp.code = other.code
               /\ last'.resp.msg = other.msg]_vars

\* C36: an edit by the creator of a skill whose new name, as it would be
\* stored, is the name of another stored skill does not succeed and leaves
\* every skill as it was: the edited one keeps its name, description,
\* category, status and rejection reason.
C36_RenameCollisionChangesNothing ==
    [][(/\ last'.op = "edit"
        /\ last'.id \in DOMAIN skills
        /\ ~NotCreator(skills[last'.id], last'.actor)
        /\ NameTaken(skills, last'.id, UpdatedSkill(skills[last'.id], last'.data).name))
            => /\ last'.resp.code # 200
               /\ skills' = skills]_vars

\* C36 witness: the creator of an approved skill renamed it to the name of
\* the other stored skill; the call failed and the skill is approved under
\* its old name.
C36_Witness ==
    /\ last.op = "edit"
    /\ last.row # << >>
    /\ ~NotCreator(last.row[1], last.actor)
    /\ last.row[1].status = "approved"
    /\ \E k \in DOMAIN skills \ {last.id} :
          skills[k].name = sanitize_string(last.data.name[1], MaxNameLen)
    /\ last.resp.code = 500
    /\ skills[last.id] = last.row[1]

\* C37: on every store and for every body, the create of the blueprint and
\* the create of app_standalone.py refuse the same calls: a call that one of
\* them answers stores a pending request exactly when the other, on the same
\* store, would store one.
C37_RoutesRefuseAlike ==
    [][/\ last'.op = "create"
          => (last'.resp.code = 201
                <=> standalone_create_swap_request_response(
                        last'.actor, last'.data).code = 201)
       /\ last'.op = "create_standalone"
          => (last'.resp.code = 201
                <=> create_swap_request_response(
                        requests, users, last'.actor, last'.data).code = 201)]_vars

====
